---- MODULE Spec2Model ----
(***************************************************************************)
(* A model of pewpewSetup's two hardware controllers:                      *)
(*   - PIStage (devices/PIStage.py and its near copy hardware/PIStage.py): *)
(*     a single-axis translation stage driven through an MMC wrapper;      *)
(*   - InfiniiumOscilloscope (hardware/InfiniiumOscilloscope.py): a SCPI   *)
(*     session with an error queue drained after each command or query.    *)
(* Positions are integers in units of the default is_moving threshold      *)
(* (0.0001 mm).  Python's None is the empty sequence <<>>, a value v that  *)
(* may be None is <<v>>.  Strings the code inspects are sequences of       *)
(* one-character strings.                                                  *)
(***************************************************************************)
EXTENDS Integers, Sequences, FiniteSets, TLC

(***************************************************************************)
(* Bounds of the model.                                                    *)
(***************************************************************************)
\* the stage's coordinate can be read in -1 .. MaxPos
MaxPos == 3
\* calls the script makes on one PIStage object
MaxOps == 2
\* calls the script makes on one InfiniiumOscilloscope object
MaxScopeOps == 2
\* entries the instrument's error queue holds
MaxQueue == 3
\* calls the script makes of single_acquisition, get_waveform, save_setup
\* and load_setup
MaxAcqOps == 2

(***************************************************************************)
(* Program constants.                                                      *)
(***************************************************************************)
\* is_moving(self, threshold=0.0001), and the literal 0.0001 of the
\* hardware/ variant's loops: one unit of position
DefaultThreshold == 1

None == <<>>
Some(v) == <<v>>

PosMin == 0 - 1
PhysRange == PosMin..MaxPos
\* move(delta) is called with delta in -MaxDelta .. MaxDelta
MaxDelta == MaxPos - 1
Deltas == (0 - MaxDelta)..MaxDelta
\* bounds=[lo, hi] handed to the constructor (default [0, 25])
BoundsChoices == {<<0, MaxPos - 1>>, <<1, MaxPos - 1>>}
\* what MMC_initNetwork(3) may report: a list of device numbers, or none
DeviceLists == {<<>>, <<2, 1>>}
Thresholds == {DefaultThreshold, DefaultThreshold + 1}
Variants == {"devices", "hardware"}

min(a, b) == IF a < b THEN a ELSE b
max(a, b) == IF a > b THEN a ELSE b
abs(a) == IF a < 0 THEN 0 - a ELSE a

VARIABLES
  variant,      \* which PIStage.py the object is an instance of
  bounds,       \* self.bounds
  wrapper,      \* self.wrapper: "None" or "obj"
  axis,         \* self.axis: None or Some(device)
  conn,         \* the MMC transport: "unopened", "open", "closed"
  hwPos,        \* the stage's position as getPos reports it
  hwTarget,     \* the servo's setpoint
  pc,           \* the caller's position in the running method
  op,           \* the running public method
  loc,          \* the running method's arguments and locals
  moveRet,      \* what the last move returned, with its inputs
  imRet,        \* what the last is_moving returned, with its samples
  lastReq,      \* the last request the running call handed to the wrapper
  initResult,   \* how init_stage ended, and what it raised to its caller
  closeReqs,    \* MMC_COM_close requests issued so far
  ops           \* calls made so far

self == <<variant, bounds, wrapper, axis>>
stageVars == <<self, conn, hwPos, hwTarget, pc, op, loc, moveRet, imRet,
               lastReq, initResult, closeReqs, ops>>

\* the InfiniiumOscilloscope object and its instrument
VARIABLES
  scope,           \* self.scope: "None" or "obj"
  visa,            \* the VISA session: "unopened", "open", "closed"
  errQueue,        \* the instrument's error queue: entries [code, by]
  spc,             \* position in the running scope method
  sop,             \* the running method: [kind, id, payload]
  drain,           \* the running or last drain: what it met and did
  sResult,         \* what the last method returned, with its inputs
  reports,         \* <<by, against>> of every error printed so far
  sFaulted,        \* a transport call of the session has raised
  scopeCloseReqs,  \* scope.close() requests issued so far
  sops             \* scope methods called so far

scopeVars == <<scope, visa, errQueue, spc, sop, drain, sResult, reports,
               sFaulted, scopeCloseReqs, sops>>

\* a second thread of the program that holds the same PIStage object
VARIABLES
  t2               \* that thread: where it is, and where it met the first one

threadVars == <<t2>>

\* single_acquisition, get_waveform, save_setup and load_setup: the methods
\* built on the do_* methods
VARIABLES
  apc,     \* "idle", or "run" while one of these methods is running
  ameth,   \* the method that runs, or ran last
  prog,    \* the calls and statements the running method has still to do
  aloc,    \* its local variables
  alog,    \* the commands it has handed to the transport, in order
  files,   \* the setup file and the CSV file on disk
  acq,     \* the last single_acquisition: its arguments, how ':DIGitize' went
  ran,     \* the methods whose statements ran during the call
  aerr,    \* "reported" once a drain of the call printed an error, "continued"
           \* once a command was issued after that
  aclean,  \* no transport call of this call raised or drew an error
  aexc,    \* the exception that ended the call, "None" if none did
  setup,   \* the blob ':SYSTem:SETup?' returned, the blob ':SYSTem:SETup' sent
  pre,     \* the preamble just decoded: the string and what came of it
  aops     \* calls made so far

acqVars == <<apc, ameth, prog, aloc, alog, files, acq, ran, aerr, aclean, aexc,
             setup, pre, aops>>

\* what a method of PIStage leaves alone, and a method of the scope
offStage == <<scopeVars, threadVars, acqVars>>
offScope == <<stageVars, threadVars, acqVars>>


(***************************************************************************)
(* The MMC wrapper and the stage behind it.                                *)
(***************************************************************************)
\* the position find_home drives the stage to (the reference switch)
HomeRef == PosMin

clampPhys(p) == max(min(p, MaxPos), PosMin)

\* a request as the wrapper receives it: the method, and the session it meets
Req(name, arg) ==
  [name |-> name, conn |-> conn, axis |-> axis, arg |-> arg]

\* the requests that read or change the stage's motion
MotionReqs == {"getPos", "moveAbs", "find_home", "DH"}

NoReq == [name |-> "none", conn |-> "unopened", axis |-> None, arg |-> None]

\* the locals of a method that is not running
Loc0 == [position |-> 0, threshold |-> DefaultThreshold, current_position |-> 0,
         target_position |-> 0, initial_pos |-> 0, pos |-> 0]

\* the stage is looked at again: a call is running or another one follows
Watched == pc # "idle" \/ ops < MaxOps

\* the stage travels towards its setpoint, one or two units between requests
StageAdvance ==
  /\ Watched
  /\ UNCHANGED offStage
  /\ hwPos # hwTarget
  /\ \E step \in 1..2 :
       hwPos' = IF hwTarget > hwPos
                  THEN min(hwPos + step, hwTarget)
                  ELSE max(hwPos - step, hwTarget)
  /\ UNCHANGED <<self, conn, hwTarget, pc, op, loc, moveRet, imRet, lastReq,
                 initResult, closeReqs, ops>>

\* at its setpoint the powered servo may be pushed off it by two units
StageDisturb ==
  /\ Watched
  /\ UNCHANGED offStage
  /\ conn = "open"
  /\ hwPos = hwTarget
  /\ \E p \in {hwTarget - 2, hwTarget + 2} :
       /\ p \in PhysRange
       /\ hwPos' = p
  /\ UNCHANGED <<self, conn, hwTarget, pc, op, loc, moveRet, imRet, lastReq,
                 initResult, closeReqs, ops>>

(***************************************************************************)
(* PIStage.__init__ and init_stage.                                        *)
(***************************************************************************)
InitOutcomes ==
  {"wrapper_raises", "open_raises", "enumerated", "select_raises", "getPos_raises"}

\* enumerate_devices: MMC_initNetwork(3)'s list, [] when it raises
enumerate_devices(raises, devs) == IF raises THEN <<>> ELSE devs

\* the exception init_stage lets escape to the constructor's caller:
\* `except Exception` catches every one, the empty list only prints
init_stage_raises(outcome, devices) == "None"

\* how the initialisation ended, as its prints tell it
InitClass(outcome, devices) ==
  IF outcome \in {"wrapper_raises", "open_raises"} THEN outcome
  ELSE IF devices = <<>> THEN "no_devices"
  ELSE IF outcome = "enumerated" THEN "success"
  ELSE "raised_after_select"

init_stage ==
  /\ pc = "ctor"
  /\ UNCHANGED offStage
  /\ \E outcome \in InitOutcomes, enumRaises \in BOOLEAN, devs \in DeviceLists :
       LET opened  == outcome \notin {"wrapper_raises", "open_raises"}
           devices == enumerate_devices(enumRaises, devs)
       IN  /\ wrapper' = IF outcome = "wrapper_raises" THEN "None" ELSE "obj"
           /\ conn' = IF opened THEN "open" ELSE "unopened"
           /\ axis' = IF opened /\ devices # <<>> THEN Some(Head(devices)) ELSE None
           /\ lastReq' =
                IF outcome = "wrapper_raises" THEN NoReq
                ELSE IF outcome = "open_raises"
                  THEN [name |-> "open", conn |-> "unopened", axis |-> None,
                        arg |-> None]
                ELSE IF devices = <<>>
                  THEN [name |-> "MMC_initNetwork", conn |-> "open",
                        axis |-> None, arg |-> None]
                ELSE IF outcome = "select_raises"
                  THEN [name |-> "MMC_select", conn |-> "open",
                        axis |-> Some(Head(devices)), arg |-> None]
                ELSE [name |-> "getPos", conn |-> "open",
                      axis |-> Some(Head(devices)), arg |-> None]
           /\ initResult' =
                Some([outcome |-> InitClass(outcome, devices),
                      raised  |-> init_stage_raises(outcome, devices)])
  /\ pc' = "idle"
  /\ UNCHANGED <<variant, bounds, hwPos, hwTarget, op, loc, moveRet, imRet,
                 closeReqs, ops>>

\* a public method is called: the script is between calls
Call ==
  /\ pc = "idle"
  /\ ops < MaxOps
  /\ ops' = ops + 1

\* a public method returns
Return ==
  /\ pc' = "idle"
  /\ op' = "none"
  /\ loc' = Loc0

(***************************************************************************)
(* PIStage.move: the part both variants share.                             *)
(***************************************************************************)
\* a move that forgets the lower bound
clamp_target_upper_only(cur, d, b) == min(cur + d, b[2])

\* target_position = max(min(current_position + position, bounds[1]), bounds[0])
clamp_target(cur, d, b) == max(min(cur + d, b[2]), b[1])

\* `return` of move and the `except` of move: what the caller gets
MoveReturn(val, clean, l) ==
  /\ moveRet' = Some([ret |-> val, clean |-> clean,
                      prior |-> l.current_position, delta |-> l.position,
                      settled |-> hwPos = hwTarget
                                    /\ hwTarget = l.target_position,
                      open |-> conn = "open" /\ axis # None,
                      sampled |-> \/ variant = "hardware"
                                  \/ /\ imRet # None
                                     /\ imRet[1].samples = 2])
  /\ Return

move_call ==
  /\ Call
  /\ UNCHANGED offStage
  /\ imRet' = None
  /\ lastReq' = NoReq
  /\ \E d \in Deltas :
       IF wrapper = "None"
         THEN MoveReturn(None, FALSE, [Loc0 EXCEPT !.position = d])
         ELSE /\ loc' = [Loc0 EXCEPT !.position = d]
              /\ pc' = "move_getPos"
              /\ op' = "move"
              /\ moveRet' = None
  /\ UNCHANGED <<self, conn, hwPos, hwTarget, initResult, closeReqs>>

\* lines 134-137: read the position, add, clamp
move_getPos ==
  /\ pc = "move_getPos"
  /\ UNCHANGED offStage
  /\ lastReq' = Req("getPos", None)
  /\ \E raises \in BOOLEAN :
       IF raises
         THEN MoveReturn(None, FALSE, loc)
         ELSE /\ loc' = [loc EXCEPT
                           !.current_position = hwPos,
                           !.target_position =
                              clamp_target(hwPos, loc.position, bounds)]
              /\ pc' = "move_moveAbs"
              /\ UNCHANGED <<op, moveRet>>
  /\ UNCHANGED <<self, conn, hwPos, hwTarget, imRet, initResult, closeReqs, ops>>

\* where the settle loop of the variant starts
SettleEntry == IF variant = "devices" THEN "is_moving_s1" ELSE "hw_first"

\* line 139: self.wrapper.moveAbs(self.axis, target_position)
move_moveAbs ==
  /\ pc = "move_moveAbs"
  /\ UNCHANGED offStage
  /\ lastReq' = Req("moveAbs", Some([target |-> loc.target_position,
                                     cur |-> loc.current_position,
                                     delta |-> loc.position]))
  /\ \E raises \in BOOLEAN :
       IF raises
         THEN /\ MoveReturn(None, FALSE, loc)
              /\ UNCHANGED hwTarget
         ELSE /\ hwTarget' = IF conn = "open" /\ axis # None
                               THEN loc.target_position ELSE hwTarget
              /\ pc' = SettleEntry
              /\ UNCHANGED <<op, loc, moveRet>>
  /\ UNCHANGED <<self, conn, hwPos, imRet, initResult, closeReqs, ops>>

(***************************************************************************)
(* PIStage.is_moving: two position samples 10 ms apart.                    *)
(***************************************************************************)
\* a comparison that counts a change of exactly the threshold as motion
moved_at_threshold(initial, final, thr) == abs(final - initial) >= thr

\* abs(final_pos - initial_pos) > threshold
moved(initial, final, thr) == abs(final - initial) > thr

\* where the caller of is_moving goes on with its result
AfterIsMoving(caller, r) ==
  IF caller = "is_moving" THEN "idle"
  ELSE IF r THEN "is_moving_s1"
  ELSE IF caller = "move" THEN "final" ELSE "define_home"

IsMovingReturn(caller, r, n, s1, s2, thr) ==
  /\ imRet' = Some([ret |-> r, samples |-> n, s1 |-> s1, s2 |-> s2,
                    threshold |-> thr, caller |-> caller])
  /\ pc' = AfterIsMoving(caller, r)
  /\ op' = IF caller = "is_moving" THEN "none" ELSE caller
  /\ loc' = IF caller = "is_moving" THEN Loc0
            ELSE [loc EXCEPT !.initial_pos = 0]

is_moving_call ==
  /\ Call
  /\ UNCHANGED offStage
  /\ moveRet' = None
  /\ lastReq' = NoReq
  /\ \E thr \in Thresholds :
       IF wrapper = "None"
         THEN IsMovingReturn("is_moving", FALSE, 0, 0, 0, thr)
         ELSE /\ loc' = [Loc0 EXCEPT !.threshold = thr]
              /\ pc' = "is_moving_s1"
              /\ op' = "is_moving"
              /\ imRet' = None
  /\ UNCHANGED <<self, conn, hwPos, hwTarget, initResult, closeReqs>>

\* initial_pos = self.wrapper.getPos()
is_moving_s1 ==
  /\ pc = "is_moving_s1"
  /\ UNCHANGED offStage
  /\ lastReq' = Req("getPos", None)
  /\ \E raises \in BOOLEAN :
       IF raises
         THEN IsMovingReturn(op, FALSE, 0, 0, 0, loc.threshold)
         ELSE /\ loc' = [loc EXCEPT !.initial_pos = hwPos]
              /\ pc' = "is_moving_s2"
              /\ UNCHANGED <<op, imRet>>
  /\ UNCHANGED <<self, conn, hwPos, hwTarget, moveRet, initResult, closeReqs, ops>>

\* final_pos = self.wrapper.getPos() and the comparison
is_moving_s2 ==
  /\ pc = "is_moving_s2"
  /\ UNCHANGED offStage
  /\ lastReq' = Req("getPos", None)
  /\ \E raises \in BOOLEAN :
       IF raises
         THEN IsMovingReturn(op, FALSE, 1, loc.initial_pos, 0, loc.threshold)
         ELSE IsMovingReturn(op, moved(loc.initial_pos, hwPos, loc.threshold),
                             2, loc.initial_pos, hwPos, loc.threshold)
  /\ UNCHANGED <<self, conn, hwPos, hwTarget, moveRet, initResult, closeReqs, ops>>

(***************************************************************************)
(* The settle loop of hardware/PIStage.py: pos against pos_tmp.            *)
(***************************************************************************)
\* `except` of move (the caller gets None) or of move_home
OpRaises ==
  IF op = "move"
    THEN MoveReturn(None, FALSE, loc)
    ELSE /\ Return
         /\ UNCHANGED moveRet

\* pos = self.wrapper.getPos() before the loop
hw_first ==
  /\ pc = "hw_first"
  /\ UNCHANGED offStage
  /\ lastReq' = Req("getPos", None)
  /\ \E raises \in BOOLEAN :
       IF raises
         THEN OpRaises
         ELSE /\ loc' = [loc EXCEPT !.pos = hwPos]
              /\ pc' = "hw_loop"
              /\ UNCHANGED <<op, moveRet>>
  /\ UNCHANGED <<self, conn, hwPos, hwTarget, imRet, initResult, closeReqs, ops>>

\* where a method goes on after its settle loop
AfterSettle(caller) == IF caller = "move" THEN "final" ELSE "define_home"

\* one turn of `while moving`
hw_loop ==
  /\ pc = "hw_loop"
  /\ UNCHANGED offStage
  /\ lastReq' = Req("getPos", None)
  /\ \E raises \in BOOLEAN :
       IF raises
         THEN OpRaises
         ELSE /\ loc' = [loc EXCEPT !.pos = hwPos]
              /\ pc' = IF moved(hwPos, loc.pos, DefaultThreshold)
                         THEN "hw_loop" ELSE AfterSettle(op)
              /\ UNCHANGED <<op, moveRet>>
  /\ UNCHANGED <<self, conn, hwPos, hwTarget, imRet, initResult, closeReqs, ops>>

(***************************************************************************)
(* After the loop: the final position read, and what move returns.         *)
(***************************************************************************)
\* devices/: `return pos`; hardware/: no return statement
move_result(v, p) == IF v = "devices" THEN Some(p) ELSE None

final ==
  /\ pc = "final"
  /\ UNCHANGED offStage
  /\ lastReq' = Req("getPos", None)
  /\ \E raises \in BOOLEAN :
       IF raises
         THEN OpRaises
         ELSE IF op = "move"
           THEN MoveReturn(move_result(variant, hwPos), TRUE, loc)
           ELSE /\ Return
                /\ UNCHANGED moveRet
  /\ UNCHANGED <<self, conn, hwPos, hwTarget, imRet, initResult, closeReqs, ops>>

(***************************************************************************)
(* PIStage.move_home.                                                      *)
(***************************************************************************)
move_home_call ==
  /\ Call
  /\ UNCHANGED offStage
  /\ moveRet' = None
  /\ imRet' = None
  /\ lastReq' = NoReq
  /\ IF wrapper = "None"
       THEN UNCHANGED <<pc, op>>
       ELSE /\ pc' = "find_home"
            /\ op' = "move_home"
  /\ UNCHANGED <<self, conn, hwPos, hwTarget, loc, initResult, closeReqs>>

\* self.wrapper.find_home()
find_home ==
  /\ pc = "find_home"
  /\ UNCHANGED offStage
  /\ lastReq' = Req("find_home", None)
  /\ \E raises \in BOOLEAN :
       IF raises
         THEN /\ OpRaises
              /\ UNCHANGED hwTarget
         ELSE /\ hwTarget' = IF conn = "open" THEN HomeRef ELSE hwTarget
              /\ pc' = SettleEntry
              /\ UNCHANGED <<op, loc, moveRet>>
  /\ UNCHANGED <<self, conn, hwPos, imRet, initResult, closeReqs, ops>>

\* self.wrapper.MMC_sendCommand('DH'): the position reached becomes 0
define_home ==
  /\ pc = "define_home"
  /\ UNCHANGED offStage
  /\ lastReq' = Req("DH", None)
  /\ \E raises \in BOOLEAN :
       IF raises
         THEN /\ OpRaises
              /\ UNCHANGED <<hwPos, hwTarget>>
         ELSE /\ hwPos' = IF conn = "open" THEN 0 ELSE hwPos
              /\ hwTarget' = IF conn = "open"
                               THEN clampPhys(hwTarget - hwPos) ELSE hwTarget
              /\ pc' = "final"
              /\ UNCHANGED <<op, loc, moveRet>>
  /\ UNCHANGED <<self, conn, imRet, initResult, closeReqs, ops>>

(***************************************************************************)
(* PIStage.stop_motion and PIStage.close.                                  *)
(***************************************************************************)
stop_motion ==
  /\ Call
  /\ UNCHANGED offStage
  /\ moveRet' = None
  /\ imRet' = None
  /\ IF wrapper = "None"
       THEN /\ lastReq' = NoReq
            /\ UNCHANGED hwTarget
       ELSE /\ lastReq' = Req("MMC_globalBreak", None)
            /\ \E raises \in BOOLEAN :
                 hwTarget' = IF ~raises /\ conn = "open" THEN hwPos ELSE hwTarget
  /\ UNCHANGED <<self, conn, hwPos, pc, op, loc, initResult, closeReqs>>

\* `if self.wrapper:` guards the request
close_guard(w) == w # "None"

close ==
  /\ Call
  /\ UNCHANGED offStage
  /\ moveRet' = None
  /\ imRet' = None
  /\ IF close_guard(wrapper)
       THEN /\ lastReq' = Req("MMC_COM_close", None)
            /\ closeReqs' = closeReqs + 1
            /\ \E raises \in BOOLEAN :
                 conn' = IF ~raises /\ conn = "open" THEN "closed" ELSE conn
       ELSE /\ lastReq' = NoReq
            /\ UNCHANGED <<closeReqs, conn>>
  /\ UNCHANGED <<self, hwPos, hwTarget, pc, op, loc, initResult>>

(***************************************************************************)
(* stop_motion called from a second thread.  PIStage holds no lock: the    *)
(* request of the second thread is in flight from stop_motion_begin to     *)
(* stop_motion_end, and the first thread goes on meanwhile.                *)
(***************************************************************************)
\* where the first thread's next step hands a request to the wrapper
RequestPcs == {"move_getPos", "move_moveAbs", "is_moving_s1", "is_moving_s2",
               "hw_first", "hw_loop", "final", "find_home", "define_home"}
\* the settle loops among them
SettlePcs == {"is_moving_s1", "is_moving_s2", "hw_first", "hw_loop"}

\* `if self.wrapper:` and the call of MMC_globalBreak
stop_motion_begin ==
  /\ t2.pc = "ready"
  /\ pc # "ctor"
  /\ t2' = IF wrapper = "None"
             THEN [pc |-> "done", at |-> pc]
             ELSE [pc |-> "in_break", at |-> pc]
  /\ UNCHANGED <<stageVars, scopeVars, acqVars>>

\* MMC_globalBreak returns or raises; stop_motion prints and returns
stop_motion_end ==
  /\ t2.pc = "in_break"
  /\ t2' = [t2 EXCEPT !.pc = "done"]
  /\ \E raises \in BOOLEAN :
       hwTarget' = IF ~raises /\ conn = "open" THEN hwPos ELSE hwTarget
  /\ UNCHANGED <<self, conn, hwPos, pc, op, loc, moveRet, imRet, lastReq,
                 initResult, closeReqs, ops>>
  /\ UNCHANGED <<scopeVars, acqVars>>

(***************************************************************************)
(* InfiniiumOscilloscope: the instrument and its error queue.              *)
(***************************************************************************)
\* error codes the instrument may queue for a command or query
ErrCodes == {0 - 113, 10}
\* what a string query may answer, and a block query
StringPayloads == {<<"7">>, <<"x">>}
BlockPayloads == {<<1, 2>>}
OpKinds == {"do_command", "do_command_ieee_block", "do_query_string",
            "do_query_number", "do_query_ieee_block"}

DigitChars == <<"0", "1", "2", "3", "4", "5", "6", "7", "8", "9">>
Whitespace == {" ", "\n"}

RECURSIVE Digits(_)
Digits(n) ==
  IF n < 10 THEN <<DigitChars[n + 1]>>
  ELSE Digits(n \div 10) \o <<DigitChars[(n % 10) + 1]>>

\* the instrument's answer to :SYSTem:ERRor? STRing for one entry:
\* a signed code, a comma, the message, a line end
format_error(code) ==
  (IF code < 0 THEN <<"-">> ELSE <<"+">>) \o Digits(abs(code))
    \o <<",">> \o (IF code = 0 THEN <<"N">> ELSE <<"E">>) \o <<"\n">>

\* the next answer of the error queue: its head, "no error" when it is empty
error_answer(q) == IF q = <<>> THEN format_error(0) ELSE format_error(Head(q).code)

RECURSIVE lstrip(_)
lstrip(s) ==
  IF s # <<>> /\ Head(s) \in Whitespace THEN lstrip(Tail(s)) ELSE s

RECURSIVE rstrip(_)
rstrip(s) ==
  IF s # <<>> /\ s[Len(s)] \in Whitespace
    THEN rstrip(SubSeq(s, 1, Len(s) - 1)) ELSE s

\* str.strip()
strip(s) == rstrip(lstrip(s))

\* str.startswith(prefix)
startswith(s, prefix) ==
  Len(s) >= Len(prefix) /\ SubSeq(s, 1, Len(prefix)) = prefix

\* a test that takes every answer with a plus sign for "no error"
is_no_error_any_plus(answer) == startswith(strip(answer), <<"+">>)

\* error_string = ....strip(); error_string.startswith("+0,")
is_no_error(answer) == startswith(strip(answer), <<"+", "0", ",">>)

\* float(result): a string of digits, ValueError (None here) otherwise
RECURSIVE digits_value(_)
digits_value(s) ==
  IF s = <<>> THEN 0
  ELSE 10 * digits_value(SubSeq(s, 1, Len(s) - 1))
       + (CHOOSE d \in 0..9 : DigitChars[d + 1] = s[Len(s)])

float(s) ==
  IF s # <<>> /\ \A i \in 1..Len(s) : \E d \in 1..10 : DigitChars[d] = s[i]
    THEN Some(digits_value(s)) ELSE None

\* def check_instrument_errors(self, command): the keywords it accepts
check_instrument_errors_params == {"command"}

\* every method passing the command alone
drain_keywords_none(kind) == {}

\* the keywords each method passes to check_instrument_errors besides
\* the command
drain_keywords(kind) ==
  IF kind = "do_query_ieee_block" THEN {"exit_on_error"} ELSE {}

\* the call binds its arguments, or raises TypeError before the body runs
call_binds(keywords) == keywords \subseteq check_instrument_errors_params


\* the drain's record of itself is kept up to this many queries
DrainCap == MaxQueue + 2
count_query(n) == IF n < DrainCap THEN n + 1 ELSE n

NoDrain == [start |-> <<>>, seen |-> <<>>, queries |-> 0, ended |-> "none",
            against |-> 0]
NoOp == [kind |-> "none", id |-> 0, payload |-> None]

\* new entries the instrument queues for the operation `id`
NewErrors(id) ==
  {<<>>} \cup {<<[code |-> c, by |-> id]>> : c \in ErrCodes}
         \cup {<<[code |-> c, by |-> id], [code |-> d, by |-> id]>> :
                 c \in ErrCodes, d \in ErrCodes}

Payloads(kind) ==
  IF kind \in {"do_command", "do_command_ieee_block"} THEN {None}
  ELSE IF kind = "do_query_ieee_block" THEN BlockPayloads
  ELSE StringPayloads

\* a constructor that keeps the handle it got when timeout or clear raises
scope_init_keeps_handle ==
  /\ spc = "ctor"
  /\ UNCHANGED offScope
  /\ \E raises \in BOOLEAN :
       /\ scope' = "obj"
       /\ visa' = IF raises THEN "unopened" ELSE "open"
  /\ spc' = "idle"
  /\ UNCHANGED <<errQueue, sop, drain, sResult, reports, sFaulted,
                 scopeCloseReqs, sops>>

\* __init__: open_resource, timeout, clear; self.scope = None when one raises
scope_init ==
  /\ spc = "ctor"
  /\ UNCHANGED offScope
  /\ \E raises \in BOOLEAN :
       /\ scope' = IF raises THEN "None" ELSE "obj"
       /\ visa' = IF raises THEN "unopened" ELSE "open"
  /\ spc' = "idle"
  /\ UNCHANGED <<errQueue, sop, drain, sResult, reports, sFaulted,
                 scopeCloseReqs, sops>>

\* what a method returns after its drain
method_result(kind, payload) ==
  IF kind \in {"do_command", "do_command_ieee_block",
               "check_instrument_errors"} THEN None
  ELSE IF kind = "do_query_number" THEN float(payload)
  ELSE Some(payload)

ScopeReturn(o, ret, sent, q0, drained) ==
  /\ sResult' = Some([kind |-> o.kind, id |-> o.id, payload |-> o.payload,
                      ret |-> ret, sent |-> sent, clean |-> q0 = <<>>,
                      drained |-> drained])
  /\ spc' = "idle"
  /\ sop' = NoOp

\* do_command, do_command_ieee_block, do_query_string, do_query_number,
\* do_query_ieee_block up to the call of check_instrument_errors
scope_call ==
  /\ spc = "idle"
  /\ UNCHANGED offScope
  /\ sops < MaxScopeOps
  /\ sops' = sops + 1
  /\ \E kind \in OpKinds, raises \in BOOLEAN :
     \E payload \in Payloads(kind), errs \in NewErrors(sops + 1) :
       LET o == [kind |-> kind, id |-> sops + 1, payload |-> payload]
           fails == raises \/ visa # "open"
       IN
       IF scope = "None"
         THEN /\ ScopeReturn(o, None, FALSE, errQueue, FALSE)
              /\ UNCHANGED <<errQueue, drain, sFaulted>>
         ELSE /\ Len(errQueue) + Len(errs) <= MaxQueue
              /\ errQueue' = IF visa = "open" THEN errQueue \o errs ELSE errQueue
              /\ IF fails
                   THEN /\ ScopeReturn(o, None, FALSE, errQueue', FALSE)
                        /\ sFaulted' = TRUE
                        /\ UNCHANGED drain
                   ELSE IF call_binds(drain_keywords(kind))
                     THEN /\ spc' = "drain"
                          /\ sop' = o
                          /\ drain' = [NoDrain EXCEPT !.start = errQueue',
                                                      !.against = o.id]
                          /\ UNCHANGED <<sResult, sFaulted>>
                     ELSE /\ ScopeReturn(o, None, TRUE, errQueue', FALSE)
                          /\ UNCHANGED <<drain, sFaulted>>
  /\ UNCHANGED <<scope, visa, reports, scopeCloseReqs>>

\* check_instrument_errors called on its own: `if self.scope is None` and
\* the entry into the loop
check_instrument_errors_call ==
  /\ spc = "idle"
  /\ UNCHANGED offScope
  /\ sops < MaxScopeOps
  /\ sops' = sops + 1
  /\ LET o == [kind |-> "check_instrument_errors", id |-> sops + 1,
               payload |-> None]
     IN  IF scope = "None"
           THEN /\ ScopeReturn(o, None, FALSE, errQueue, FALSE)
                /\ UNCHANGED drain
           ELSE /\ spc' = "drain"
                /\ sop' = o
                /\ drain' = [NoDrain EXCEPT !.start = errQueue,
                                            !.against = o.id]
                /\ UNCHANGED sResult
  /\ UNCHANGED <<scope, visa, errQueue, reports, sFaulted, scopeCloseReqs>>

\* one turn of check_instrument_errors' `while True`
check_instrument_errors ==
  /\ spc = "drain"
  /\ UNCHANGED offScope
  /\ \E raises \in BOOLEAN :
       IF raises
         THEN /\ drain' = [drain EXCEPT !.queries = count_query(@), !.ended = "exception"]
              /\ sFaulted' = TRUE
              /\ ScopeReturn(sop, method_result(sop.kind, sop.payload), TRUE,
                             errQueue, FALSE)
              /\ UNCHANGED <<errQueue, reports>>
         ELSE LET answer == error_answer(errQueue)
              IN  /\ errQueue' = IF errQueue = <<>> THEN <<>> ELSE Tail(errQueue)
                  /\ IF is_no_error(answer)
                       THEN /\ drain' = [drain EXCEPT !.queries = count_query(@),
                                                      !.ended = "sentinel"]
                            /\ ScopeReturn(sop,
                                           method_result(sop.kind, sop.payload),
                                           TRUE, errQueue', TRUE)
                            /\ UNCHANGED reports
                       ELSE /\ drain' = [drain EXCEPT
                                           !.queries = count_query(@),
                                           !.seen =
                                             IF Len(@) < DrainCap
                                               THEN Append(@,
                                                 [answer |-> strip(answer),
                                                  command |-> sop.id])
                                               ELSE @]
                            /\ reports' = reports \cup
                                 {<<(IF errQueue = <<>> THEN 0
                                     ELSE Head(errQueue).by), sop.id>>}
                            /\ UNCHANGED <<spc, sop, sResult>>
                  /\ UNCHANGED sFaulted
  /\ UNCHANGED <<scope, visa, scopeCloseReqs, sops>>

\* an instrument with a standing fault: its queue read empty, the fault is
\* queued again before the next ':SYSTem:ERRor? STRing'
instrument_keeps_erring ==
  /\ spc = "drain"
  /\ visa = "open"
  /\ errQueue = <<>>
  /\ UNCHANGED offScope
  /\ \E c \in ErrCodes : errQueue' = <<[code |-> c, by |-> sop.id]>>
  /\ UNCHANGED <<scope, visa, spc, sop, drain, sResult, reports, sFaulted,
                 scopeCloseReqs, sops>>

\* `if self.scope is not None:` guards the request
scope_close_guard(sc) == sc # "None"

\* close(self)
scope_close ==
  /\ spc = "idle"
  /\ UNCHANGED offScope
  /\ sops < MaxScopeOps
  /\ sops' = sops + 1
  /\ IF scope_close_guard(scope)
       THEN /\ scopeCloseReqs' = scopeCloseReqs + 1
            /\ visa' = "closed"
       ELSE UNCHANGED <<scopeCloseReqs, visa>>
  /\ UNCHANGED <<scope, errQueue, spc, sop, drain, sResult, reports, sFaulted>>

(***************************************************************************)
(* get_preamble: the preamble string and its decoding.                     *)
(***************************************************************************)
\* the dictionaries at the head of InfiniiumOscilloscope.py
trig_mode_disct == (0 :> "EDGE") @@ (1 :> "GLITCH")

wav_form_dict ==
  (0 :> "ASCii") @@ (1 :> "BYTE") @@ (2 :> "WORD") @@ (3 :> "LONG")
    @@ (4 :> "LONGLONG")
acq_type_dict ==
  (1 :> "RAW") @@ (2 :> "AVERage") @@ (3 :> "VHIStogram") @@ (4 :> "HHIStogram")
    @@ (6 :> "INTerpolate") @@ (10 :> "PDETect")
acq_mode_dict == (0 :> "RTIMe") @@ (1 :> "ETIMe") @@ (3 :> "PDETect")
coupling_dict == (0 :> "AC") @@ (1 :> "DC") @@ (2 :> "DCFIFTY") @@ (3 :> "LFREJECT")
units_dict ==
  (0 :> "UNKNOWN") @@ (1 :> "VOLT") @@ (2 :> "SECOND") @@ (3 :> "CONSTANT")
    @@ (4 :> "AMP") @@ (5 :> "DECIBEL")

\* the fields of a preamble
PreambleFieldCount == 24

\* the names the tuple assignment of get_preamble binds, one per field
PreambleNames ==
  <<"wav_form", "acq_type", "wfmpts", "avgcnt", "x_increment", "x_origin",
    "x_reference", "y_increment", "y_origin", "y_reference", "coupling",
    "x_display_range", "x_display_origin", "y_display_range",
    "y_display_origin", "date", "time", "frame_model", "acq_mode",
    "completion", "x_units", "y_units", "max_bw_limit", "min_bw_limit">>

\* the field a name is bound to
FieldAt(name) == CHOOSE i \in 1..Len(PreambleNames) : PreambleNames[i] = name

\* the fields decoded through a dictionary, and the dictionary of each
EnumDict ==
  [wav_form |-> wav_form_dict, acq_type |-> acq_type_dict,
   coupling |-> coupling_dict, acq_mode |-> acq_mode_dict,
   x_units |-> units_dict, y_units |-> units_dict]

\* str.split(sep) for a separator of one character
RECURSIVE split(_, _)
split(s, sep) ==
  IF \A i \in 1..Len(s) : s[i] # sep THEN <<s>>
  ELSE LET k == CHOOSE i \in 1..Len(s) :
                  s[i] = sep /\ \A j \in 1..(i - 1) : s[j] # sep
       IN  <<SubSeq(s, 1, k - 1)>> \o split(SubSeq(s, k + 1, Len(s)), sep)

\* int(s): blanks around, a sign, digits; ValueError (None here) otherwise
int(s) ==
  LET t == strip(s)
      signed == t # <<>> /\ Head(t) \in {"+", "-"}
      d == IF signed THEN Tail(t) ELSE t
  IN  IF float(d) = None THEN None
      ELSE IF signed /\ Head(t) = "-" THEN Some(0 - float(d)[1]) ELSE float(d)

\* a dictionary that answers every unknown key with a name
lookup_or_unknown(dict, key) ==
  IF key # None /\ key[1] \in DOMAIN dict THEN Some(dict[key[1]]) ELSE Some("UNKNOWN")

\* dict[int(field)]: KeyError or ValueError (None here) for an unknown key
lookup(dict, key) ==
  IF key # None /\ key[1] \in DOMAIN dict THEN Some(dict[key[1]]) ELSE None

\* the tuple assignment: ValueError unless split gives as many fields as names
bind_fields(fields) ==
  IF Len(fields) = Len(PreambleNames) THEN Some(fields) ELSE None

\* lines 393-415: `if preamble_string:`, the split, the decoding prints;
\* None when the string is empty or any of them raises
decode_preamble(preamble_string) ==
  IF preamble_string = None \/ preamble_string[1] = <<>> THEN None
  ELSE LET bound == bind_fields(split(preamble_string[1], ","))
       IN  IF bound = None THEN None
           ELSE LET f == bound[1]
                    names == [n \in DOMAIN EnumDict |->
                                lookup(EnumDict[n], int(f[FieldAt(n)]))]
                IN  IF \E n \in DOMAIN EnumDict : names[n] = None THEN None
                    ELSE Some([n \in DOMAIN EnumDict |-> names[n][1]]
                              @@ [date |-> f[FieldAt("date")],
                                  time |-> f[FieldAt("time")]])

(***************************************************************************)
(* The methods built on the do_* methods, as the list of calls and         *)
(* statements each one makes.  A step names the method whose body it is    *)
(* in, and the local its result is bound to.                               *)
(***************************************************************************)
St(o, cmd, in, dst) == [op |-> o, cmd |-> cmd, in |-> in, dst |-> dst]

\* set_setup with the five settings written first and queried afterwards
set_setup_prog_writes_first ==
  <<St("do_command", ":CHAN:SCALe", "set_setup", ""),
    St("do_command", ":CHAN:OFFSet", "set_setup", ""),
    St("do_command", ":TIMebase:SCALe", "set_setup", ""),
    St("do_command", ":TIMebase:POSition", "set_setup", ""),
    St("do_command", ":ACQuire:MODE", "set_setup", ""),
    St("do_query_number", ":CHAN:SCALe?", "set_setup", ""),
    St("do_query_number", ":CHAN:OFFSet?", "set_setup", ""),
    St("do_query_string", ":TIMebase:SCALe?", "set_setup", ""),
    St("do_query_string", ":TIMebase:POSition?", "set_setup", ""),
    St("do_query_string", ":ACQuire:MODE?", "set_setup", "")>>

\* set_setup: each setting written, then queried back
set_setup_prog ==
  <<St("do_command", ":CHAN:SCALe", "set_setup", ""),
    St("do_query_number", ":CHAN:SCALe?", "set_setup", ""),
    St("do_command", ":CHAN:OFFSet", "set_setup", ""),
    St("do_query_number", ":CHAN:OFFSet?", "set_setup", ""),
    St("do_command", ":TIMebase:SCALe", "set_setup", ""),
    St("do_query_string", ":TIMebase:SCALe?", "set_setup", ""),
    St("do_command", ":TIMebase:POSition", "set_setup", ""),
    St("do_query_string", ":TIMebase:POSition?", "set_setup", ""),
    St("do_command", ":ACQuire:MODE", "set_setup", ""),
    St("do_query_string", ":ACQuire:MODE?", "set_setup", "")>>

\* save_setup: the query, then open(setup_name, "wb") and f.write
save_setup_prog ==
  <<St("do_query_ieee_block", ":SYSTem:SETup?", "save_setup", "setup_bytes"),
    St("write_setup_file", "", "save_setup", "")>>

\* load_setup: open(setup_name, "rb") and f.read, then the block command
load_setup_prog ==
  <<St("read_setup_file", "", "load_setup", "read_bytes"),
    St("do_command_ieee_block", ":SYSTem:SETup", "load_setup", "")>>

\* `if trigger_mode == "EDGE":`
edge_prog ==
  <<St("do_command", ":TRIGger:EDGE:SOURce", "single_acquisition", ""),
    St("do_query_string", ":TRIGger:EDGE:SOURce?", "single_acquisition", ""),
    St("do_command", ":TRIGger:LEVel", "single_acquisition", ""),
    St("do_query_string", ":TRIGger:LEVel?", "single_acquisition", ""),
    St("do_command", ":TRIGger:EDGE:SLOPe", "single_acquisition", ""),
    St("do_query_string", ":TRIGger:EDGE:SLOPe?", "single_acquisition", "")>>

\* the arguments of single_acquisition that decide what it does
AcqParams ==
  [autoscale : BOOLEAN, trigger_mode : {"EDGE", "GLITCH"},
   save_setup : BOOLEAN, load_setup : BOOLEAN]

\* single_acquisition with the edge parameters set in every trigger mode
single_acquisition_prog_always_edge(p) ==
  <<St("do_command", ":CHAN:PROBe", "single_acquisition", ""),
    St("do_query_string", ":CHAN:PROBe?", "single_acquisition", "")>>
  \o (IF p.autoscale
        THEN <<St("do_command", ":AUToscale", "single_acquisition", "")>>
        ELSE <<>>)
  \o <<St("do_command", ":TRIGger:MODE", "single_acquisition", ""),
       St("do_query_string", ":TRIGger:MODE?", "single_acquisition", "")>>
  \o edge_prog
  \o (IF p.save_setup THEN save_setup_prog ELSE <<>>)
  \o (IF p.load_setup THEN load_setup_prog ELSE <<>>)
  \o (IF ~p.load_setup THEN set_setup_prog ELSE <<>>)
  \o <<St("do_command", ":ACQuire:POINts", "single_acquisition", ""),
       St("do_command", ":DIGitize", "single_acquisition", "")>>

single_acquisition_prog(p) ==
  <<St("do_command", ":CHAN:PROBe", "single_acquisition", ""),
    St("do_query_string", ":CHAN:PROBe?", "single_acquisition", "")>>
  \o (IF p.autoscale
        THEN <<St("do_command", ":AUToscale", "single_acquisition", "")>>
        ELSE <<>>)
  \o <<St("do_command", ":TRIGger:MODE", "single_acquisition", ""),
       St("do_query_string", ":TRIGger:MODE?", "single_acquisition", "")>>
  \o (IF p.trigger_mode = "EDGE" THEN edge_prog ELSE <<>>)
  \o (IF p.save_setup THEN save_setup_prog ELSE <<>>)
  \o (IF p.load_setup THEN load_setup_prog ELSE <<>>)
  \o (IF ~p.load_setup THEN set_setup_prog ELSE <<>>)
  \o <<St("do_command", ":ACQuire:POINts", "single_acquisition", ""),
       St("do_command", ":DIGitize", "single_acquisition", "")>>

get_preamble_prog ==
  <<St("do_query_string", ":WAVeform:PREamble?", "get_preamble", "preamble_string"),
    St("decode_preamble", "", "get_preamble", ""),
    St("do_query_number", ":WAVeform:XINCrement?", "get_preamble", "x_increment"),
    St("do_query_number", ":WAVeform:XORigin?", "get_preamble", "x_origin"),
    St("do_query_number", ":WAVeform:YINCrement?", "get_preamble", "y_increment"),
    St("do_query_number", ":WAVeform:YORigin?", "get_preamble", "y_origin"),
    St("return_preamble", "", "get_preamble", "")>>

get_waveform_prog ==
  <<St("do_query_string", ":WAVeform:TYPE?", "get_waveform", ""),
    St("do_query_string", ":WAVeform:POINts?", "get_waveform", ""),
    St("do_command", ":WAVeform:SOURce", "get_waveform", ""),
    St("do_query_string", ":WAVeform:SOURce?", "get_waveform", ""),
    St("do_command", ":WAVeform:FORMat", "get_waveform", ""),
    St("do_query_string", ":WAVeform:FORMat?", "get_waveform", "")>>
  \o get_preamble_prog
  \o <<St("unpack_preamble", "", "get_waveform", ""),
       St("do_command", ":WAVeform:STReaming OFF", "get_waveform", ""),
       St("do_query_ieee_block", ":WAVeform:DATA?", "get_waveform", "sData"),
       St("write_csv", "", "get_waveform", "")>>

\* the locals of these methods before they are bound
ALoc0 ==
  [setup_bytes |-> None, read_bytes |-> None, preamble_string |-> None,
   decoded |-> None, x_increment |-> None, x_origin |-> None,
   y_increment |-> None, y_origin |-> None, preamble |-> None, sData |-> None,
   values |-> None, waveform_format |-> None]

\* the locals get_preamble leaves behind when it returns to get_waveform
AfterPreamble(l) == [ALoc0 EXCEPT !.waveform_format = l.waveform_format]

\* the formats get_waveform is called with
WaveformFormats == {wav_form_dict[1], wav_form_dict[2]}

\* the preamble strings the instrument is made to answer: one well formed,
\* each decoded field given other codes, a field too few, a field too many,
\* an empty answer
RECURSIVE Join(_)
Join(fields) ==
  IF Len(fields) = 0 THEN <<>>
  ELSE IF Len(fields) = 1 THEN fields[1]
  ELSE fields[1] \o <<",">> \o Join(Tail(fields))

BaseFields ==
  [i \in 1..Len(PreambleNames) |->
     IF PreambleNames[i] \in {"wav_form", "acq_type", "coupling", "y_units"}
       THEN <<"1">>
     ELSE IF PreambleNames[i] \in {"x_units", "wfmpts"} THEN <<"2">>
     ELSE IF PreambleNames[i] = "date" THEN <<"d">>
     ELSE IF PreambleNames[i] = "time" THEN <<"t">>
     ELSE <<"0">>]

TestCodes == {<<"0">>, <<"3">>, <<"7">>, <<"x">>, <<"1", "0">>, <<" ", "1">>}

Preambles ==
  {Join(BaseFields), Join(BaseFields) \o <<"\n">>, <<>>,
   Join(SubSeq(BaseFields, 1, Len(BaseFields) - 1)),
   Join(Append(BaseFields, <<"0">>))}
  \cup {Join([BaseFields EXCEPT ![FieldAt(n)] = c]) :
          n \in DOMAIN EnumDict, c \in TestCodes}

\* how a transport call of a do_* method goes: answered with no error
\* queued, answered with an error queued, or raising
Outcomes == {"ok", "error", "raised"}

\* what the instrument may answer to the step's query
StepPayloads(st) ==
  IF st.cmd = ":WAVeform:PREamble?" THEN Preambles
  ELSE IF st.op = "do_query_ieee_block" THEN BlockPayloads
  ELSE IF st.op = "do_query_number" /\ st.dst # "" THEN StringPayloads
  ELSE {None}

\* what a do_* method hands back: None without a session, when the transport
\* raises, and when its call of check_instrument_errors raises
do_result(kind, out, payload) ==
  IF scope = "None" \/ out = "raised" \/ ~call_binds(drain_keywords(kind))
    THEN None
    ELSE method_result(kind, payload)

\* struct.unpack("%db" % len(sData), sData): signed bytes
unpack_b(bytes) ==
  [i \in 1..Len(bytes) |-> IF bytes[i] >= 128 THEN bytes[i] - 256 ELSE bytes[i]]

(***************************************************************************)
(* The steps of the running method.                                        *)
(***************************************************************************)
\* the statement is done: on to the next one
Advance(st) ==
  /\ prog' = Tail(prog)
  /\ ran' = ran \cup {st.in}

\* an exception no inner `try` catches: single_acquisition and get_waveform
\* catch it and print, save_setup lets it out to its caller
Abort(st, exc) ==
  /\ prog' = <<>>
  /\ ran' = ran \cup {st.in}
  /\ aexc' = exc

\* an exception the `try` of the method `m` catches: the rest of m is skipped
SkipRest(m) == SelectSeq(Tail(prog), LAMBDA x : x.in # m)

\* a call of one of the do_* methods
do_step ==
  /\ apc = "run"
  /\ prog # <<>>
  /\ Head(prog).op \in OpKinds
  /\ LET st == Head(prog)
         issued == scope # "None"
     IN  \E out \in Outcomes, payload \in StepPayloads(st) :
           LET drains == issued /\ out # "raised"
                           /\ call_binds(drain_keywords(st.op))
               ret == do_result(st.op, out, payload)
           IN  /\ issued \/ (out = "ok" /\ payload = CHOOSE x \in StepPayloads(st) : TRUE)
               /\ alog' = IF issued THEN Append(alog, st.cmd) ELSE alog
               /\ aerr' = IF aerr # "none" /\ issued THEN "continued"
                          ELSE IF drains /\ out = "error" THEN "reported"
                          ELSE aerr
               /\ aclean' = (aclean /\ out = "ok")
               /\ aloc' = IF st.dst # "" THEN [aloc EXCEPT ![st.dst] = ret] ELSE aloc
               /\ acq' = IF st.cmd = ":DIGitize"
                           THEN [acq EXCEPT !.digitize = IF issued THEN out ELSE "none"]
                           ELSE acq
               /\ setup' =
                    IF st.cmd = ":SYSTem:SETup?"
                      THEN [setup EXCEPT !.returned =
                              IF issued /\ out # "raised" THEN Some(payload) ELSE None]
                    ELSE IF st.cmd = ":SYSTem:SETup"
                      THEN [setup EXCEPT !.sent =
                              IF issued THEN aloc.read_bytes ELSE None]
                    ELSE setup
               /\ Advance(st)
  /\ pre' = None
  /\ UNCHANGED <<apc, ameth, files, aexc, aops>>
  /\ UNCHANGED <<stageVars, scopeVars, threadVars>>

\* save_setup: `with open(setup_name, "wb") as f: f.write(setup_bytes)`;
\* the file is created empty, then write(None) raises TypeError
write_setup_file ==
  /\ apc = "run"
  /\ prog # <<>>
  /\ Head(prog).op = "write_setup_file"
  /\ IF aloc.setup_bytes = None
       THEN /\ files' = [files EXCEPT !.setup = Some(<<>>)]
            /\ Abort(Head(prog), "TypeError")
       ELSE /\ files' = [files EXCEPT !.setup = aloc.setup_bytes]
            /\ Advance(Head(prog))
            /\ UNCHANGED aexc
  /\ pre' = None
  /\ UNCHANGED <<apc, ameth, aloc, alog, acq, aerr, aclean, setup, aops>>
  /\ UNCHANGED <<stageVars, scopeVars, threadVars>>

\* load_setup: `with open(setup_name, "rb") as f: setup_bytes = f.read()`;
\* a missing file raises inside load_setup's try
read_setup_file ==
  /\ apc = "run"
  /\ prog # <<>>
  /\ Head(prog).op = "read_setup_file"
  /\ IF files.setup = None
       THEN /\ prog' = SkipRest("load_setup")
            /\ UNCHANGED aloc
       ELSE /\ prog' = Tail(prog)
            /\ aloc' = [aloc EXCEPT !.read_bytes = files.setup]
  /\ ran' = ran \cup {"load_setup"}
  /\ pre' = None
  /\ UNCHANGED <<apc, ameth, alog, files, acq, aerr, aclean, aexc, setup, aops>>
  /\ UNCHANGED <<stageVars, scopeVars, threadVars>>

\* get_preamble, lines 393-415 and 425-430
split_preamble ==
  /\ apc = "run"
  /\ prog # <<>>
  /\ Head(prog).op = "decode_preamble"
  /\ LET r == decode_preamble(aloc.preamble_string)
     IN  /\ pre' = Some([string |-> aloc.preamble_string, result |-> r])
         /\ IF r = None
              THEN /\ prog' = SkipRest("get_preamble")
                   /\ aloc' = AfterPreamble(aloc)
              ELSE /\ prog' = Tail(prog)
                   /\ aloc' = [aloc EXCEPT !.decoded = r, !.preamble_string = None]
  /\ ran' = ran \cup {"get_preamble"}
  /\ UNCHANGED <<apc, ameth, alog, files, acq, aerr, aclean, aexc, setup, aops>>
  /\ UNCHANGED <<stageVars, scopeVars, threadVars>>

\* get_preamble, line 424: the tuple it returns
return_preamble ==
  /\ apc = "run"
  /\ prog # <<>>
  /\ Head(prog).op = "return_preamble"
  /\ aloc' = [AfterPreamble(aloc) EXCEPT !.preamble =
                Some([x_increment |-> aloc.x_increment,
                      x_origin |-> aloc.x_origin,
                      x_units |-> aloc.decoded[1].x_units,
                      y_increment |-> aloc.y_increment,
                      y_origin |-> aloc.y_origin,
                      y_units |-> aloc.decoded[1].y_units,
                      date |-> aloc.decoded[1].date,
                      time |-> aloc.decoded[1].time])]
  /\ Advance(Head(prog))
  /\ pre' = None
  /\ UNCHANGED <<apc, ameth, alog, files, acq, aerr, aclean, aexc, setup, aops>>
  /\ UNCHANGED <<stageVars, scopeVars, threadVars>>

\* an unpacking that goes on with nothing to unpack
unpack_never_raises(preamble) == FALSE

\* get_waveform, line 462: unpacking None raises TypeError
unpack_raises(preamble) == preamble = None

unpack_preamble ==
  /\ apc = "run"
  /\ prog # <<>>
  /\ Head(prog).op = "unpack_preamble"
  /\ IF unpack_raises(aloc.preamble)
       THEN Abort(Head(prog), "TypeError")
       ELSE /\ Advance(Head(prog))
            /\ UNCHANGED aexc
  /\ pre' = None
  /\ UNCHANGED <<apc, ameth, aloc, alog, files, acq, aerr, aclean, setup, aops>>
  /\ UNCHANGED <<stageVars, scopeVars, threadVars>>

\* the rows of the CSV file: (time_val, voltage) for each value
csv_rows(values, t) ==
  [i \in 1..Len(values) |->
     <<t.x_origin[1] + ((i - 1) * t.x_increment[1]),
       (values[i] * t.y_increment[1]) + t.y_origin[1]>>]

\* get_waveform, lines 469-479: len(sData) raises on None; the file is
\* opened and its header written; a row with a None in it raises
write_csv ==
  /\ apc = "run"
  /\ prog # <<>>
  /\ Head(prog).op = "write_csv"
  /\ IF aloc.sData = None
       THEN /\ Abort(Head(prog), "TypeError")
            /\ UNCHANGED <<files, aloc>>
       ELSE LET values == unpack_b(aloc.sData[1])
                t == aloc.preamble[1]
                numbers == /\ t.x_increment # None
                           /\ t.x_origin # None
                           /\ t.y_increment # None
                           /\ t.y_origin # None
            IN  /\ aloc' = [aloc EXCEPT !.values = Some(values)]
                /\ IF Len(values) > 0 /\ ~numbers
                  THEN /\ files' = [files EXCEPT !.csv =
                                      Some([by |-> aops, rows |-> <<>>,
                                            complete |-> FALSE])]
                       /\ Abort(Head(prog), "TypeError")
                  ELSE /\ files' = [files EXCEPT !.csv =
                                      Some([by |-> aops,
                                            rows |-> csv_rows(values, t),
                                            complete |-> TRUE])]
                       /\ Advance(Head(prog))
                       /\ UNCHANGED aexc
  /\ pre' = None
  /\ UNCHANGED <<apc, ameth, alog, acq, aerr, aclean, setup, aops>>
  /\ UNCHANGED <<stageVars, scopeVars, threadVars>>

\* a return after which the object still holds what the method had bound
method_return_keeps_locals ==
  /\ apc = "run"
  /\ prog = <<>>
  /\ apc' = "idle"
  /\ aloc' = aloc
  /\ pre' = None
  /\ UNCHANGED <<ameth, prog, alog, files, acq, ran, aerr, aclean, aexc, setup,
                 aops>>
  /\ UNCHANGED <<stageVars, scopeVars, threadVars>>

\* the method returns, or its `except` has printed
method_return ==
  /\ apc = "run"
  /\ prog = <<>>
  /\ apc' = "idle"
  /\ aloc' = ALoc0
  /\ pre' = None
  /\ UNCHANGED <<ameth, prog, alog, files, acq, ran, aerr, aclean, aexc, setup,
                 aops>>
  /\ UNCHANGED <<stageVars, scopeVars, threadVars>>

(***************************************************************************)
(* The calls.                                                              *)
(***************************************************************************)
StartCall(m, program, l) ==
  /\ apc = "idle"
  /\ spc = "idle"
  /\ aops < MaxAcqOps
  /\ aops' = aops + 1
  /\ apc' = "run"
  /\ ameth' = m
  /\ prog' = program
  /\ aloc' = l
  /\ alog' = <<>>
  /\ ran' = {}
  /\ aerr' = "none"
  /\ aclean' = TRUE
  /\ aexc' = "None"
  /\ pre' = None
  /\ UNCHANGED files
  /\ UNCHANGED <<stageVars, scopeVars, threadVars>>

single_acquisition ==
  \E p \in AcqParams :
    /\ StartCall("single_acquisition", single_acquisition_prog(p), ALoc0)
    /\ acq' = [called |-> TRUE, digitize |-> "none",
                trigger_mode |-> p.trigger_mode]
    /\ UNCHANGED setup

get_waveform ==
  /\ \E waveform_format \in WaveformFormats :
       StartCall("get_waveform", get_waveform_prog,
                 [ALoc0 EXCEPT !.waveform_format = Some(waveform_format)])
  /\ UNCHANGED <<acq, setup>>

save_setup ==
  /\ StartCall("save_setup", save_setup_prog, ALoc0)
  /\ UNCHANGED <<acq, setup>>

load_setup ==
  /\ StartCall("load_setup", load_setup_prog, ALoc0)
  /\ setup' = [setup EXCEPT !.sent = None]
  /\ UNCHANGED acq

InitAcq ==
  /\ apc = "idle"
  /\ ameth = "none"
  /\ prog = <<>>
  /\ aloc = ALoc0
  /\ alog = <<>>
  /\ files = [setup |-> None, csv |-> None]
  /\ acq = [called |-> FALSE, digitize |-> "none", trigger_mode |-> "none"]
  /\ ran = {}
  /\ aerr = "none"
  /\ aclean = TRUE
  /\ aexc = "None"
  /\ setup = [returned |-> None, sent |-> None]
  /\ pre = None
  /\ aops = 0

NextAcq ==
  \/ scope_init
  \/ single_acquisition
  \/ get_waveform
  \/ save_setup
  \/ load_setup
  \/ do_step
  \/ write_setup_file
  \/ read_setup_file
  \/ split_preamble
  \/ return_preamble
  \/ unpack_preamble
  \/ write_csv
  \/ method_return

InitThread == t2 = [pc |-> "ready", at |-> "idle"]

InitScope ==
  /\ scope = "None"
  /\ visa = "unopened"
  /\ errQueue = <<>>
  /\ spc = "ctor"
  /\ sop = NoOp
  /\ drain = NoDrain
  /\ sResult = None
  /\ reports = {}
  /\ sFaulted = FALSE
  /\ scopeCloseReqs = 0
  /\ sops = 0

NextScope ==
  \/ scope_init
  \/ scope_call
  \/ check_instrument_errors_call
  \/ check_instrument_errors
  \/ scope_close

(***************************************************************************)
(* The specifications.                                                     *)
(***************************************************************************)
vars == <<stageVars, scopeVars, threadVars, acqVars>>

InitStage ==
  /\ variant \in Variants
  /\ bounds \in BoundsChoices
  /\ wrapper = "None"
  /\ axis = None
  /\ conn = "unopened"
  /\ hwPos \in PhysRange
  /\ hwTarget = hwPos
  /\ pc = "ctor"
  /\ op = "none"
  /\ loc = Loc0
  /\ moveRet = None
  /\ imRet = None
  /\ lastReq = NoReq
  /\ initResult = None
  /\ closeReqs = 0
  /\ ops = 0

StageProgram ==
  \/ init_stage
  \/ move_call
  \/ move_getPos
  \/ move_moveAbs
  \/ is_moving_call
  \/ is_moving_s1
  \/ is_moving_s2
  \/ hw_first
  \/ hw_loop
  \/ final
  \/ move_home_call
  \/ find_home
  \/ define_home
  \/ stop_motion
  \/ close

StageEnv == StageAdvance \/ StageDisturb

NextStage == StageProgram \/ StageEnv

Init == InitStage /\ InitScope /\ InitThread /\ InitAcq

\* the calls on the stage object
SpecStage == Init /\ [][NextStage]_vars

\* the calls on the scope object, beside one stage object left alone
InitBesideStage ==
  /\ Init
  /\ variant = "devices"
  /\ bounds = <<0, MaxPos - 1>>
  /\ hwPos = 0

SpecScope == InitBesideStage /\ [][NextScope]_vars

\* check_instrument_errors called on an instrument with a standing fault;
\* the loop takes its next turn: its caller is one thread that does nothing
\* else (every turn changes spc, drain or errQueue)
NextDrain ==
  \/ scope_init
  \/ check_instrument_errors_call
  \/ check_instrument_errors
  \/ instrument_keeps_erring
  \/ scope_close

SpecDrainFair ==
  /\ InitBesideStage
  /\ [][NextDrain]_vars
  /\ WF_<<spc, drain, errQueue>>(check_instrument_errors)

\* the calls of single_acquisition, get_waveform, save_setup and load_setup
\* on the scope object
SpecAcq == InitBesideStage /\ [][NextAcq]_vars

\* the calls on the stage object, and one stop_motion from a second thread
InitThreads ==
  /\ Init
  /\ bounds = <<0, MaxPos - 1>>
  /\ hwPos = 0

NextStageThreads == NextStage \/ stop_motion_begin \/ stop_motion_end

SpecStageThreads == InitThreads /\ [][NextStageThreads]_vars

\* the running method's next step is eventually taken: the caller is one
\* thread that does nothing else
SpecStageFair == SpecStage /\ WF_vars(StageProgram)

(***************************************************************************)
(* scan.py: the constructors, move_home, and the sweep loop.               *)
(***************************************************************************)
\* the arguments scan.py hands to single_acquisition (lines 7-11)
ScanParams ==
  [autoscale |-> TRUE, trigger_mode |-> trig_mode_disct[0],
   save_setup |-> FALSE, load_setup |-> FALSE]

\* line 57: stage = PIStage(...), the class of devices/PIStage.py
scan_init_stage ==
  /\ spc # "ctor"
  /\ init_stage

\* line 58: stage.move_home()
scan_move_home ==
  /\ spc # "ctor"
  /\ ops = 0
  /\ move_home_call

\* lines 65 and 67: final_position = stage.move(...), once move_home and the
\* acquisitions of the indices before have returned; position_array[0] is
\* 0.0, the later steps are equal and positive
scan_move ==
  /\ ops >= 1
  /\ apc = "idle"
  /\ aops = 2 * (ops - 1)
  /\ move_call
  /\ loc'.position = IF ops = 1 THEN 0 ELSE 1

\* lines 68-69 and 33: final_position*1e2 raises TypeError on None and ends
\* the script; with a number, acquisition calls single_acquisition
scan_single_acquisition ==
  /\ pc = "idle"
  /\ ops >= 2
  /\ aops = 2 * (ops - 2)
  /\ moveRet # None
  /\ moveRet[1].ret # None
  /\ single_acquisition
  /\ prog' = single_acquisition_prog(ScanParams)

\* line 48: oscilloscope.get_waveform(channel=channel, name_csv=...), the
\* format left at its default
scan_get_waveform ==
  /\ ameth = "single_acquisition"
  /\ get_waveform
  /\ aloc'.waveform_format = Some(wav_form_dict[1])

\* the statements of the method that is running
ScanStep ==
  \/ move_getPos
  \/ move_moveAbs
  \/ is_moving_s1
  \/ is_moving_s2
  \/ final
  \/ find_home
  \/ define_home
  \/ do_step
  \/ split_preamble
  \/ return_preamble
  \/ unpack_preamble
  \/ write_csv
  \/ method_return

\* line 54 is the constructor of the scope, scope_init
NextScan ==
  \/ scope_init
  \/ scan_init_stage
  \/ scan_move_home
  \/ scan_move
  \/ scan_single_acquisition
  \/ scan_get_waveform
  \/ ScanStep
  \/ StageAdvance

SpecScan == InitBesideStage /\ [][NextScan]_vars

(***************************************************************************)
(* Properties of the stage.                                                *)
(***************************************************************************)
Clamp(x, lo, hi) == IF x < lo THEN lo ELSE IF x > hi THEN hi ELSE x

\* C1: the absolute target move hands to moveAbs is
\* clamp(current + delta, bounds[0], bounds[1]), current being the position
\* move read, and so lies within the bounds; in both variants, whatever
\* calls came before.
C1_TargetClamped ==
  lastReq.name = "moveAbs" =>
    LET a == lastReq.arg[1]
    IN  /\ a.target = Clamp(a.cur + a.delta, bounds[1], bounds[2])
        /\ bounds[1] <= a.target
        /\ a.target <= bounds[2]

\* a move after an earlier call, of the hardware/ variant, clamped from below
C1_Witness ==
  /\ lastReq.name = "moveAbs"
  /\ variant = "hardware"
  /\ ops = MaxOps
  /\ lastReq.arg[1].cur + lastReq.arg[1].delta < bounds[1]
  /\ lastReq.arg[1].target = bounds[1]

\* C2: a move on an open stage, none of whose requests failed, returns the
\* position clamp(prior + delta, bounds[0], bounds[1]), and the stage is at
\* rest at that target when move returns.
C2_MoveReturnsSettledTarget ==
  (/\ moveRet # None
   /\ moveRet[1].clean
   /\ moveRet[1].open
   /\ moveRet[1].sampled)
  => /\ moveRet[1].ret =
          Some(Clamp(moveRet[1].prior + moveRet[1].delta, bounds[1], bounds[2]))
     /\ moveRet[1].settled

\* C6: the settle loop of move and move_home is left on every execution.
InSettleLoop == pc \in {"is_moving_s1", "is_moving_s2", "hw_first", "hw_loop"}
                  /\ op \in {"move", "move_home"}

C6_SettleLoopEnds == InSettleLoop ~> ~InSettleLoop

\* C7 as amended: is_moving returns True exactly when it read two positions
\* and they differ by more than the threshold; it returns False in every
\* other case (two positions within the threshold, no wrapper, a read that
\* raised), so two equal samples are never reported as motion.
C7_TrueIffSamplesDiffer ==
  imRet # None =>
    (imRet[1].ret <=> /\ imRet[1].samples = 2
                      /\ abs(imRet[1].s2 - imRet[1].s1) > imRet[1].threshold)

\* is_moving, called with a threshold of 2, saw the stage move by more
C7_Witness ==
  /\ imRet # None
  /\ imRet[1].ret
  /\ imRet[1].caller = "is_moving"
  /\ imRet[1].threshold = DefaultThreshold + 1

\* C7 as claimed: False is returned only for two samples within the threshold
C7_FalseOnlyForCloseSamples ==
  imRet # None =>
    (~imRet[1].ret <=> /\ imRet[1].samples = 2
                       /\ abs(imRet[1].s2 - imRet[1].s1) <= imRet[1].threshold)

\* C8: getPos, moveAbs, find_home and 'DH' are requested only on a session
\* that was opened, has an axis selected and was not closed.
C8_MotionOnlyWhenOpen ==
  lastReq.name \in MotionReqs => (lastReq.conn = "open" /\ lastReq.axis # None)

\* C9: when the transport open fails the constructor raises ConnectionError,
\* when the enumeration is empty it raises NoDeviceFound, and the object left
\* behind does not pass for an opened stage.
C9_OpenFailureRaises ==
  initResult # None =>
    /\ initResult[1].outcome = "open_raises"
         => (initResult[1].raised = "ConnectionError" /\ wrapper = "None")
    /\ initResult[1].outcome = "no_devices"
         => (initResult[1].raised = "NoDeviceFound" /\ wrapper = "None")

\* C10: no MMC_COM_close is requested on a stage session that is already
\* closed, and scope.close() is requested at most once on a scope session.
C10_CloseIdempotent ==
  /\ lastReq.name = "MMC_COM_close" => lastReq.conn # "closed"
  /\ scopeCloseReqs <= 1

\* C17: on an open stage, while the MMC_globalBreak of a stop_motion that
\* began in the middle of a settle loop is in flight, the loop's thread hands
\* no request of its own to the wrapper.
C17_RequestsSerialized ==
  ~(/\ conn = "open"
    /\ axis # None
    /\ op \in {"move", "move_home"}
    /\ t2.pc = "in_break"
    /\ t2.at \in SettlePcs
    /\ pc # t2.at)

\* C19: move_home sends 'DH' only when the homing travel started by find_home
\* is over: on an open stage with its axis selected, about to receive 'DH',
\* the position is the home reference.
C19_DefineHomeAtRest ==
  (pc = "define_home" /\ conn = "open" /\ axis # None) => hwPos = hwTarget

(***************************************************************************)
(* Properties of the scope.                                                *)
(***************************************************************************)
\* the entries a drain is to print for the queue it started with
Expected(start, id) ==
  [i \in 1..Len(start) |->
     [answer |-> strip(format_error(start[i].code)), command |-> id]]

C4_NoErrorLeaks ==
  (scope # "None" /\ ~sFaulted) =>
    /\ (spc = "idle" /\ sResult # None) => errQueue = <<>>
    /\ \A r \in reports : r[1] = r[2]

\* C5: do_query_ieee_block, answered with a block and no error, on a session
\* none of whose transport calls raised, returns the block.
C5_BlockQueryReturnsBytes ==
  (/\ sResult # None
   /\ sResult[1].kind = "do_query_ieee_block"
   /\ sResult[1].sent
   /\ sResult[1].clean
   /\ ~sFaulted)
  => sResult[1].ret = Some(sResult[1].payload)

(***************************************************************************)
(* Properties of single_acquisition, get_waveform, save_setup, load_setup. *)
(***************************************************************************)
\* how often the running or last call issued a command, and where first
Count(c) == Cardinality({i \in 1..Len(alog) : alog[i] = c})
Idx(c) ==
  IF Count(c) = 0 THEN 0
  ELSE CHOOSE i \in 1..Len(alog) :
         alog[i] = c /\ \A j \in 1..(i - 1) : alog[j] # c

Returned(m) == apc = "idle" /\ ameth = m

\* C11: a single_acquisition that has returned on a connected scope issued
\* ':DIGitize' exactly once, as its last command; and get_waveform, called
\* after a single_acquisition, issues ':WAVeform:DATA?' only if the
\* ':DIGitize' of that acquisition was issued and answered without error.
C11_DigitizeBeforeData ==
  /\ (Returned("single_acquisition") /\ scope # "None")
       => (Count(":DIGitize") = 1 /\ alog[Len(alog)] = ":DIGitize")
  /\ (ameth = "get_waveform" /\ acq.called /\ Count(":WAVeform:DATA?") > 0)
       => acq.digitize = "ok"

\* C12: in single_acquisition and get_waveform no command is issued after a
\* drain has read an error entry, and the call then ends in InstrumentError.
C12_FailFast ==
  ameth \in {"single_acquisition", "get_waveform"} =>
    /\ aerr # "continued"
    /\ (apc = "idle" /\ aerr = "reported") => aexc = "InstrumentError"

\* C13: a get_waveform that ended in an exception has created no CSV file.
C13_NoPartialCsv ==
  (Returned("get_waveform") /\ aexc # "None")
    => ~(files.csv # None /\ files.csv[1].by = aops)

\* get_waveform failed after the preamble was decoded and the data query
\* issued, a transport call having failed on the way
C13_Witness ==
  /\ Returned("get_waveform")
  /\ aexc = "TypeError"
  /\ ~aclean
  /\ Count(":WAVeform:DATA?") = 1

\* C14: get_preamble decodes format, acquisition type, coupling, acquire mode
\* and the x and y units of a preamble of 24 fields to the names of the
\* tables (format 1 is BYTE); with another number of fields, or a code that
\* is in no table, it decodes nothing and returns None.
C14_PreambleDecoding ==
  pre # None =>
    LET str == pre[1].string
        r == pre[1].result
    IN  IF str = None \/ str[1] = <<>> THEN r = None
        ELSE LET n == 1 + Cardinality({i \in 1..Len(str[1]) : str[1][i] = ","})
                 f == split(str[1], ",")
                 code(e) == int(f[FieldAt(e)])
                 known(e) == code(e) # None /\ code(e)[1] \in DOMAIN EnumDict[e]
             IN  IF n # PreambleFieldCount THEN r = None
                 ELSE IF \E e \in DOMAIN EnumDict : ~known(e) THEN r = None
                 ELSE /\ r # None
                      /\ \A e \in DOMAIN EnumDict :
                           r[1][e] = EnumDict[e][code(e)[1]]
                      /\ code("wav_form") = Some(1) => r[1].wav_form = "BYTE"

\* a preamble of 24 fields was decoded, its acquisition type the code 10
C14_Witness ==
  /\ pre # None
  /\ pre[1].result # None
  /\ pre[1].result[1].acq_type = "PDETect"
  /\ pre[1].result[1].wav_form = "BYTE"

\* C15: a get_waveform all of whose queries were answered, with a decoded
\* preamble and four calibration numbers, has written the CSV file with
\* all its rows.
C15_WaveformWritten ==
  (/\ ameth = "get_waveform"
   /\ apc = "run"
   /\ prog = <<>>
   /\ scope # "None"
   /\ aclean
   /\ Count(":WAVeform:DATA?") = 1
   /\ aloc.preamble # None
   /\ aloc.preamble[1].x_increment # None
   /\ aloc.preamble[1].x_origin # None
   /\ aloc.preamble[1].y_increment # None
   /\ aloc.preamble[1].y_origin # None)
  => /\ files.csv # None
     /\ files.csv[1].by = aops
     /\ files.csv[1].complete

\* C16: load_setup, after a save_setup during which the instrument answered
\* ':SYSTem:SETup?' with a blob, no transport call of load_setup failing,
\* sends with ':SYSTem:SETup' that blob.
C16_SetupRoundTrip ==
  (/\ Returned("load_setup")
   /\ scope # "None"
   /\ aclean
   /\ setup.returned # None)
  => setup.sent = setup.returned

\* C18: a single_acquisition that has returned on a connected scope ran
\* exactly one of load_setup and set_setup.
C18_OneConfiguration ==
  (Returned("single_acquisition") /\ scope # "None")
    => Cardinality(ran \cap {"load_setup", "set_setup"}) = 1

\* C20: in get_waveform the preamble query comes after ':WAVeform:SOURce' and
\* ':WAVeform:FORMat', ':WAVeform:STReaming OFF' after the preamble query,
\* ':WAVeform:DATA?' after ':WAVeform:STReaming OFF', and the data query is
\* issued only with the tuple of get_preamble in hand.
C20_WaveformOrder ==
  ameth = "get_waveform" =>
    LET src  == Idx(":WAVeform:SOURce")
        fmt  == Idx(":WAVeform:FORMat")
        prea == Idx(":WAVeform:PREamble?")
        strm == Idx(":WAVeform:STReaming OFF")
        data == Idx(":WAVeform:DATA?")
    IN  /\ prea > 0 => (0 < src /\ src < fmt /\ fmt < prea)
        /\ strm > 0 => (0 < prea /\ prea < strm)
        /\ data > 0 => (0 < strm /\ strm < data)
        /\ (data > 0 /\ apc = "run") => aloc.preamble # None

\* the data query has just been issued
C20_Witness ==
  /\ ameth = "get_waveform"
  /\ apc = "run"
  /\ alog # <<>>
  /\ alog[Len(alog)] = ":WAVeform:DATA?"

\* the query that reads back what a command of set_setup, or a trigger
\* command of single_acquisition, has written
ReadBack ==
  [c \in {":CHAN:SCALe", ":CHAN:OFFSet", ":TIMebase:SCALe",
          ":TIMebase:POSition", ":ACQuire:MODE", ":TRIGger:MODE",
          ":TRIGger:EDGE:SOURce", ":TRIGger:LEVel", ":TRIGger:EDGE:SLOPe"} |->
     CASE c = ":CHAN:SCALe" -> ":CHAN:SCALe?"
       [] c = ":CHAN:OFFSet" -> ":CHAN:OFFSet?"
       [] c = ":TIMebase:SCALe" -> ":TIMebase:SCALe?"
       [] c = ":TIMebase:POSition" -> ":TIMebase:POSition?"
       [] c = ":ACQuire:MODE" -> ":ACQuire:MODE?"
       [] c = ":TRIGger:MODE" -> ":TRIGger:MODE?"
       [] c = ":TRIGger:EDGE:SOURce" -> ":TRIGger:EDGE:SOURce?"
       [] c = ":TRIGger:LEVel" -> ":TRIGger:LEVel?"
       [] c = ":TRIGger:EDGE:SLOPe" -> ":TRIGger:EDGE:SLOPe?"]

EdgeCommands == {":TRIGger:EDGE:SOURce", ":TRIGger:LEVel", ":TRIGger:EDGE:SLOPe"}

\* C21: in single_acquisition every command of set_setup and every trigger
\* command is followed at once by the query of the same parameter: the query
\* is the next call issued, or, the command being the last one issued so
\* far, the next call the method makes.
C21_WriteThenVerify ==
  ameth = "single_acquisition" =>
    \A i \in 1..Len(alog) :
      alog[i] \in DOMAIN ReadBack =>
        IF i < Len(alog) THEN alog[i + 1] = ReadBack[alog[i]]
        ELSE /\ apc = "run"
             /\ prog # <<>>
             /\ Head(prog).cmd = ReadBack[alog[i]]

\* an acquisition with an edge trigger and a manual setup has returned, the
\* nine commands issued
C21_Witness ==
  /\ Returned("single_acquisition")
  /\ scope # "None"
  /\ \A c \in DOMAIN ReadBack : Count(c) = 1

\* C22: on a connected scope single_acquisition issues none of the edge
\* commands when the trigger mode is not "EDGE", and has issued each of
\* them once when it returns from a call with the trigger mode "EDGE".
C22_EdgeCommandsIffEdge ==
  (ameth = "single_acquisition" /\ scope # "None") =>
    /\ acq.trigger_mode # "EDGE" => \A c \in EdgeCommands : Count(c) = 0
    /\ (acq.trigger_mode = "EDGE" /\ apc = "idle")
         => \A c \in EdgeCommands : Count(c) = 1

\* an acquisition in another trigger mode has returned with ':DIGitize'
\* issued
C22_Witness ==
  /\ Returned("single_acquisition")
  /\ scope # "None"
  /\ acq.trigger_mode = "GLITCH"
  /\ Count(":DIGitize") = 1

(***************************************************************************)
(* Properties of the stage session.                                        *)
(***************************************************************************)
\* C23: a session that was opened has one axis, selected by init_stage, and
\* a moveAbs sent on it is addressed to that axis.
C23_OneAxisActive ==
  (conn = "open" /\ lastReq.name = "moveAbs")
    => (axis # None /\ lastReq.axis = axis)

(***************************************************************************)
(* Properties of the sample decoding.                                      *)
(***************************************************************************)
\* the bytes of one sample in each format
SampleWidth == [f \in WaveformFormats |-> IF f = wav_form_dict[1] THEN 1 ELSE 2]

\* C24: a get_waveform all of whose queries were answered has, where its
\* body ends, decoded the block the instrument sent into samples of the
\* width of the requested format: as many as the block has bytes divided by
\* that width, each a signed byte in the format "BYTE".
C24_DecodedPerFormat ==
  (/\ ameth = "get_waveform"
   /\ apc = "run"
   /\ prog = <<>>
   /\ scope # "None"
   /\ aclean
   /\ Count(":WAVeform:DATA?") = 1)
  => /\ aloc.values # None
     /\ \E b \in BlockPayloads :
          Len(aloc.values[1]) * SampleWidth[aloc.waveform_format[1]] = Len(b)
     /\ aloc.waveform_format[1] = wav_form_dict[1]
          => \A i \in 1..Len(aloc.values[1]) :
               aloc.values[1][i] \in -128..127

(***************************************************************************)
(* Properties of a scope session that failed to connect.                   *)
(***************************************************************************)
\* C25: after a constructor in which opening the resource failed, no method
\* makes a call on the transport: none has sent anything, run a drain or met
\* a transport exception, every one has returned None, and the resource is
\* never opened.
C25_FailedConnectionIsTerminal ==
  (spc # "ctor" /\ visa # "open" /\ scopeCloseReqs = 0) =>
    /\ scope = "None"
    /\ visa = "unopened"
    /\ spc = "idle"
    /\ drain = NoDrain
    /\ ~sFaulted
    /\ errQueue = <<>>
    /\ sResult # None =>
         /\ ~sResult[1].sent
         /\ ~sResult[1].drained
         /\ sResult[1].ret = None

\* a block query has returned on a session that failed to connect, the
\* second call made on it
C25_Witness ==
  /\ scope = "None"
  /\ sResult # None
  /\ sResult[1].kind = "do_query_ieee_block"
  /\ sResult[1].id = 2
  /\ sResult[1].ret = None

(***************************************************************************)
(* Properties of the sweep of scan.py.                                     *)
(***************************************************************************)
\* C26: in the sweep on an opened stage with its axis selected, an
\* acquisition runs only after a move that returned a number, and with the
\* stage at rest at its target.
C26_AcquireAfterSettledMove ==
  (apc = "run" /\ conn = "open" /\ axis # None) =>
    /\ pc = "idle"
    /\ moveRet # None
    /\ moveRet[1].ret # None
    /\ hwPos = hwTarget

(***************************************************************************)
(* Properties of the two variants of PIStage.                              *)
(***************************************************************************)
\* C27: a move none of whose requests failed hands a position back to its
\* caller in hardware/PIStage.py as it does in devices/PIStage.py.
C27_VariantsReturnAlike ==
  (moveRet # None /\ moveRet[1].clean /\ moveRet[1].open)
    => moveRet[1].ret # None

(***************************************************************************)
(* Properties of the error drain.                                          *)
(***************************************************************************)
\* C28: every run of check_instrument_errors ends: a method that has entered
\* the loop leaves it.
C28_DrainEnds == (spc = "drain") ~> (spc # "drain")

(***************************************************************************)
(* Properties of what the scope session keeps.                             *)
(***************************************************************************)
CalibrationQueries ==
  {":WAVeform:XINCrement?", ":WAVeform:XORigin?", ":WAVeform:YINCrement?",
   ":WAVeform:YORigin?"}

\* between calls nothing a method had bound is left, and the tuple
\* get_waveform holds was built from queries of this very call
NothingKept ==
  /\ apc = "idle" => aloc = ALoc0
  /\ (ameth = "get_waveform" /\ apc = "run" /\ aloc.preamble # None) =>
       \A q \in CalibrationQueries :
         /\ Count(q) = 1
         /\ Idx(":WAVeform:PREamble?") < Idx(q)

\* C29: single_acquisition, get_preamble and get_waveform change neither the
\* transport handle nor the session it stands for; when one of them has
\* returned nothing it bound is left; and the calibration numbers
\* get_waveform holds were queried in the same call.
C29_NothingRetained ==
  /\ []NothingKept
  /\ [][(apc = "run" \/ apc' = "run") => UNCHANGED <<scope, visa>>]_vars

\* get_waveform, called after a single_acquisition whose ':DIGitize' was
\* answered, holds the tuple of get_preamble with its four numbers
C29_Witness ==
  /\ ameth = "get_waveform"
  /\ apc = "run"
  /\ acq.called
  /\ acq.digitize = "ok"
  /\ aloc.preamble # None
  /\ aloc.preamble[1].x_increment # None
  /\ aloc.preamble[1].y_origin # None

====
